---------------------------- MODULE Spec2Model ----------------------------
(***************************************************************************)
(* A model of sourcemap-parse.py: the page script scanner, the sourcemap   *)
(* locator (concurrent and sequential), candidate validation and the       *)
(* source tree extractor.                                                  *)
(*                                                                         *)
(* Text is modelled as a sequence of tokens.  A token is one character     *)
(* ("/", ".", ":", " ", "a", ...) or an atom standing for a fixed run of   *)
(* ordinary characters ("webpack", "source_", "js", "map", ...); "TAB" is  *)
(* U+0009 (whitespace and control) and "SOH" is U+0001 (control, not       *)
(* whitespace).                                                            *)
(***************************************************************************)
EXTENDS Integers, Sequences, FiniteSets, TLC

VARIABLES
    \* ---- extract_source_files ----
    sources,          \* sourcemap_json["sources"]
    sources_content,  \* sourcemap_json["sourcesContent"]
    rootLen,          \* len(str(output_path))
    xpc,              \* position in extract_source_files: idle, start, loop, done
    idx,              \* 1-based position of the loop (the code's i is idx - 1)
    dirs,             \* directories of the file system (resolved paths)
    files,            \* regular files of the file system: path -> content
    extracted_files,  \* the list the call is building / has returned
    returned,         \* what the call returned: "pending", "None" or "list"
    outcome,          \* per processed entry: what the loop body did with it
    run,              \* which call of extract_source_files this is (1 or 2)
    prev              \* file system and result of the previous call

VARIABLES
    \* ---- check_for_sourcemaps / check_for_sourcemaps_sync ----
    script_urls,   \* the list the locator is called with
    server,        \* how the remote hosts answer (fixed for a behaviour)
    lcall,         \* which call is running: sync, between, async, done
    s_i,           \* check_for_sourcemaps_sync: 1-based position of its loop
    s_task,        \* ... the probe of script_urls[s_i]
    s_results,     \* ... its results dict
    s_status,      \* ... running, returned, or raised (exception escaped)
    tasks,         \* check_for_sourcemaps: the check_single_script_async tasks
    arrival,       \* ... task indices in the order the tasks finished
    a_results,     \* ... its results dict
    \* ---- check_if_exists_and_is_map / check_url_exists on one response ----
    vresp,         \* the response to the GET
    vmode,         \* which of the two functions was called
    vresult,       \* pending, true, false
    \* ---- get_script_tags ----
    page_url,      \* url
    page_resp,     \* the answer to the GET of the page
    tags,          \* the <script> elements of the page, in document order
    scan_pc,       \* fetch, loop, done
    t_i,           \* 1-based position of the loop over the elements
    scripts,       \* the list being built
    scan_result,   \* what the call returned: pending, or the list
    \* ---- find_sourcemap_comment ----
    script_content, \* the text searched
    f_pc,          \* idle, loop, done
    f_k,           \* 1-based position of the loop over the patterns
    f_result,      \* what the call returned: [found, ref]
    \* ---- download_sourcemap ----
    d_resp,        \* the answer to the GET of the call in progress
    d_pc,          \* idle, created, fetched, loaded, returned, raised
    d_calls,       \* calls started so far
    temp_files,    \* the temporary files that exist, by name
    temp_filename  \* the temporary file of the call in progress

exVars == <<sources, sources_content, rootLen, xpc, idx, dirs, files,
            extracted_files, returned, outcome, run, prev>>

locVars == <<script_urls, server, lcall, s_i, s_task, s_results, s_status,
             tasks, arrival, a_results>>

valVars == <<vresp, vmode, vresult>>

scanVars == <<page_url, page_resp, tags, scan_pc, t_i, scripts, scan_result>>

findVars == <<script_content, f_pc, f_k, f_result>>

dlVars == <<d_resp, d_pc, d_calls, temp_files, temp_filename>>

vars == <<exVars, locVars, valVars, scanVars, findVars, dlVars>>

\* what the actions of extract_source_files leave alone
notExVars == <<locVars, valVars, scanVars, findVars, dlVars>>

\* what the actions of the locator leave alone
notLocVars == <<exVars, valVars, scanVars, findVars, dlVars>>

\* what the actions of validation leave alone
notValVars == <<exVars, locVars, scanVars, findVars, dlVars>>

\* what the actions of get_script_tags leave alone
notScanVars == <<exVars, locVars, valVars, findVars, dlVars>>

\* what the actions of download_sourcemap leave alone
notDlVars == <<exVars, locVars, valVars, scanVars, findVars>>

\* what the actions of find_sourcemap_comment leave alone
notFindVars == <<exVars, locVars, valVars, scanVars, dlVars>>

-----------------------------------------------------------------------------
(* Bounds of the model *)

MaxEntries == 2      \* longest sources / sourcesContent array
MaxCalls == 3        \* most calls of download_sourcemap in a row
MaxPieces == 3       \* most pieces a script text is put together from
MaxTags == 2         \* most <script> elements on a page
MaxScripts == 2      \* longest list of script URLs
MaxRest == 5         \* longest path remainder enumerated for sanitization

-----------------------------------------------------------------------------
(* Token text *)

\* JSON null / Python None as a sourcesContent value
NULL == "None"

TokenLen(t) ==
    CASE t = "webpack" -> 7
      [] t = "source_" -> 7
      [] t = "sourceMappingURL=" -> 17
      [] t = "https" -> 5
      [] t = "http" -> 4
      [] t = "map" -> 3
      [] t = "css" -> 3
      [] t = "js" -> 2
      [] OTHER -> 1

RECURSIVE StrLen(_)
StrLen(s) == IF s = <<>> THEN 0 ELSE TokenLen(Head(s)) + StrLen(Tail(s))

\* str.startswith
StartsWith(s, p) == Len(s) >= Len(p) /\ SubSeq(s, 1, Len(p)) = p

\* s[n:] counted in tokens
Drop(s, n) == SubSeq(s, n + 1, Len(s))

\* str.split(sep) for a one-character separator
RECURSIVE SplitOn(_, _)
SplitOn(s, sep) ==
    IF \A k \in 1..Len(s) : s[k] # sep
    THEN <<s>>
    ELSE LET k == CHOOSE j \in 1..Len(s) :
                      s[j] = sep /\ \A h \in 1..(j - 1) : s[h] # sep
         IN  <<SubSeq(s, 1, k - 1)>> \o SplitOn(Drop(s, k), sep)

\* sep.join(parts)
RECURSIVE JoinWith(_, _)
JoinWith(parts, sep) ==
    IF parts = <<>> THEN <<>>
    ELSE IF Len(parts) = 1 THEN parts[1]
    ELSE parts[1] \o <<sep>> \o JoinWith(Tail(parts), sep)

\* the tokens of s that are not in drop, in order
RECURSIVE RemoveTokens(_, _)
RemoveTokens(s, drop) ==
    IF s = <<>> THEN <<>>
    ELSE (IF Head(s) \in drop THEN <<>> ELSE <<Head(s)>>)
         \o RemoveTokens(Tail(s), drop)

\* every token of s that is in old replaced by new
ReplaceTokens(s, old, new) ==
    [k \in 1..Len(s) |-> IF s[k] \in old THEN new ELSE s[k]]

SeqsUpTo(S, n) == UNION {[1..k -> S] : k \in 0..n}

\* characters str.strip() removes
Whitespace == {" ", "TAB", "NL"}
\* characters with ord(char) < 32
ControlChars == {"TAB", "NL", "SOH"}

\* part.strip() is the empty string
IsBlank(part) == \A k \in 1..Len(part) : part[k] \in Whitespace

-----------------------------------------------------------------------------
(* URLs.  A URL is token text such as                                      *)
(*   <<"https", ":", "/", "/", "a.co", "/", "x", ".", "js">>               *)
(* with host names as atoms.  The URLs of the model have no query and no   *)
(* fragment, and relative references have no dot segments.                 *)

SchemeNames == {"http", "https", "HTTPS"}

\* str.lower() on the atoms that have upper-case letters
LowerToken(t) == CASE t = "HTTPS" -> "https"
                   [] t = "A.co" -> "a.co"
                   [] OTHER -> t

\* number of tokens of s before the first sep (all of s if there is none)
RECURSIVE LenBefore(_, _)
LenBefore(s, sep) ==
    IF s = <<>> \/ Head(s) = sep THEN 0 ELSE 1 + LenBefore(Tail(s), sep)

Contains(s, t) == \E k \in 1..Len(s) : s[k] = t

EndsWith(s, suf) ==
    Len(s) >= Len(suf) /\ SubSeq(s, Len(s) - Len(suf) + 1, Len(s)) = suf

\* urllib.parse.urlparse: scheme (lower-cased), netloc, path; ok is FALSE
\* where urlparse raises ValueError (unbalanced "[" "]" in the netloc)
UrlParse(u) ==
    LET hasScheme == Len(u) >= 2 /\ u[1] \in SchemeNames /\ u[2] = ":"
        rest == IF hasScheme THEN Drop(u, 2) ELSE u
        hasNetloc == StartsWith(rest, <<"/", "/">>)
        after == IF hasNetloc THEN Drop(rest, 2) ELSE rest
        n == IF hasNetloc THEN LenBefore(after, "/") ELSE 0
        netloc == SubSeq(after, 1, n)
    IN  [ok |-> Contains(netloc, "[") = Contains(netloc, "]"),
         scheme |-> IF hasScheme THEN LowerToken(u[1]) ELSE "",
         hasNetloc |-> hasNetloc,
         netloc |-> netloc,
         path |-> Drop(after, n)]

\* f"{scheme}://{netloc}{path}"
UrlString(scheme, netloc, path) == <<scheme, ":", "/", "/">> \o netloc \o path

\* position of the last sep in s, 0 if there is none
RECURSIVE LastIndexOf(_, _)
LastIndexOf(s, sep) ==
    IF s = <<>> THEN 0
    ELSE IF s[Len(s)] = sep THEN Len(s)
    ELSE LastIndexOf(SubSeq(s, 1, Len(s) - 1), sep)

\* urllib.parse.urljoin(base, ref) for a base urlparse accepts
UrlJoin(base, ref) ==
    LET b == UrlParse(base)
        r == UrlParse(ref)
    IN  IF ref = <<>> THEN base
        ELSE IF r.scheme # "" /\ r.scheme # b.scheme THEN ref
        ELSE IF r.hasNetloc THEN UrlString(b.scheme, r.netloc, r.path)
        ELSE IF StartsWith(r.path, <<"/">>)
        THEN UrlString(b.scheme, b.netloc, r.path)
        ELSE UrlString(b.scheme, b.netloc,
                       SubSeq(b.path, 1, LastIndexOf(b.path, "/")) \o r.path)

-----------------------------------------------------------------------------
(* HTTP responses.  A body is what json.loads makes of it (kind, keys) and *)
(* its text as a script.                                                   *)

MapKeys == {"version", "file", "mappings"}

Response(net, status, kind, keys, text) ==
    [net |-> net, status |-> status, kind |-> kind, keys |-> keys,
     text |-> text]

\* lines 270-273 and 363-366
IsSourcemapValue(resp) ==
    /\ resp.kind = "object"
    /\ "version" \in resp.keys
    /\ "file" \in resp.keys
    /\ "mappings" \in resp.keys

\* check_if_exists_and_is_map (lines 253-281)
CheckIfExistsAndIsMap(resp) ==
    IF resp.net # "ok" THEN FALSE                 \* line 279
    ELSE IF resp.status = 200
    THEN IF resp.kind = "invalid" THEN FALSE      \* line 275
         ELSE IsSourcemapValue(resp)              \* line 269
    ELSE FALSE                                    \* line 278

\* check_url_exists (lines 343-372): the status is never looked at
CheckUrlExists(resp) ==
    IF resp.net # "ok" THEN FALSE                 \* line 370
    ELSE IF resp.kind = "invalid" THEN FALSE      \* line 361 raises, line 370
    ELSE IsSourcemapValue(resp)                   \* lines 362-369

\* the validation of the calling mode
Validate(mode, resp) ==
    IF mode = "async" THEN CheckIfExistsAndIsMap(resp) ELSE CheckUrlExists(resp)

-----------------------------------------------------------------------------
(* find_sourcemap_comment (lines 284-306) *)

\* [^\s]+ : the length of the longest run of non-whitespace from position p
RECURSIVE RunLen(_, _)
RunLen(text, p) ==
    IF p > Len(text) \/ text[p] \in Whitespace THEN 0
    ELSE 1 + RunLen(text, p + 1)

\* lines 294-299: the literal before the group and the literal after it
PragmaForms ==
    << [pre |-> <<"/", "/", "#", " ", "sourceMappingURL=">>, suf |-> <<>>],
       [pre |-> <<"/", "/", "@", " ", "sourceMappingURL=">>, suf |-> <<>>],
       [pre |-> <<"/", "*", "#", " ", "sourceMappingURL=">>,
        suf |-> <<" ", "*", "/">>],
       [pre |-> <<"/", "*", "@", " ", "sourceMappingURL=">>,
        suf |-> <<" ", "@", "*", "/">>] >>

\* the pattern matches with its literal starting at position p.  The group
\* is greedy; a suffix starts with a space, which the group cannot hold, so
\* only the longest run can be followed by it.
MatchesAt(text, p, form) ==
    LET q == p + Len(form.pre)
        n == RunLen(text, q)
    IN  /\ StartsWith(Drop(text, p - 1), form.pre)
        /\ n >= 1
        /\ StartsWith(Drop(text, q + n - 1), form.suf)

\* a search that takes the rightmost match
SearchFormLast(text, form) ==
    IF \E p \in 1..Len(text) : MatchesAt(text, p, form)
    THEN CHOOSE p \in 1..Len(text) :
             /\ MatchesAt(text, p, form)
             /\ \A h \in (p + 1)..Len(text) : ~MatchesAt(text, h, form)
    ELSE 0

\* re.search (line 302): the leftmost match, 0 if there is none
SearchForm(text, form) ==
    IF \E p \in 1..Len(text) : MatchesAt(text, p, form)
    THEN CHOOSE p \in 1..Len(text) :
             /\ MatchesAt(text, p, form)
             /\ \A h \in 1..(p - 1) : ~MatchesAt(text, h, form)
    ELSE 0

\* match.group(1)
GroupAt(text, p, form) ==
    SubSeq(text, p + Len(form.pre),
           p + Len(form.pre) + RunLen(text, p + Len(form.pre)) - 1)

\* lines 301-306: the first form, in order, that matches
RECURSIVE FirstFormFrom(_, _)
FirstFormFrom(text, k) ==
    IF k > Len(PragmaForms) THEN [found |-> FALSE, ref |-> <<>>]
    ELSE IF SearchForm(text, PragmaForms[k]) # 0
    THEN [found |-> TRUE,
          ref |-> GroupAt(text, SearchForm(text, PragmaForms[k]),
                          PragmaForms[k])]
    ELSE FirstFormFrom(text, k + 1)

find_sourcemap_comment(content) == FirstFormFrom(content, 1)

\* lines 301-304: one iteration of the loop over the patterns
FindTry ==
    /\ f_pc = "loop"
    /\ f_k <= Len(PragmaForms)
    /\ LET match == SearchForm(script_content, PragmaForms[f_k])
       IN  IF match # 0
           THEN /\ f_pc' = "done"
                /\ f_result' = [found |-> TRUE,
                                ref |-> GroupAt(script_content, match,
                                                PragmaForms[f_k])]
                /\ UNCHANGED f_k
           ELSE /\ f_k' = f_k + 1
                /\ UNCHANGED <<f_pc, f_result>>
    /\ UNCHANGED script_content
    /\ UNCHANGED notFindVars

\* line 306
FindNone ==
    /\ f_pc = "loop"
    /\ f_k > Len(PragmaForms)
    /\ f_pc' = "done"
    /\ f_result' = [found |-> FALSE, ref |-> <<>>]
    /\ UNCHANGED <<script_content, f_k>>
    /\ UNCHANGED notFindVars

NextFind == FindTry \/ FindNone

FindIdle ==
    /\ script_content = <<>>
    /\ f_pc = "idle"
    /\ f_k = 1
    /\ f_result = [found |-> FALSE, ref |-> <<>>]

\* pieces of script text: a pragma of each form, a second one of the first
\* form without a line end, a block pragma without the space before its
\* end, a pragma with nothing after the "=", code and white space
PiecePool ==
    { <<"/", "/", "#", " ", "sourceMappingURL=", "a", "NL">>,
      <<"/", "/", "#", " ", "sourceMappingURL=", "b">>,
      <<"/", "/", "@", " ", "sourceMappingURL=", "c", "NL">>,
      <<"/", "*", "#", " ", "sourceMappingURL=", "d", " ", "*", "/">>,
      <<"/", "*", "#", " ", "sourceMappingURL=", "d", "*", "/">>,
      <<"/", "*", "@", " ", "sourceMappingURL=", "e", " ", "@", "*", "/">>,
      <<"/", "/", "#", " ", "sourceMappingURL=", "NL">>,
      <<"code">>,
      <<" ">> }

RECURSIVE Concat(_)
Concat(pieces) ==
    IF pieces = <<>> THEN <<>> ELSE Head(pieces) \o Concat(Tail(pieces))

\* a reference urlparse rejects ("Invalid IPv6 URL")
ScriptBad == <<"http", ":", "/", "/", "[", "bad", "/", "z", ".", "js">>

-----------------------------------------------------------------------------
(* get_script_tags (lines 22-83) *)

\* a <script> element: whether it has a src attribute, and its value
Script(has, value) == [has |-> has, value |-> value]

\* raise_for_status (line 47): HTTPError for 4xx and 5xx
RaisesForStatus(status) == 400 <= status /\ status < 600

\* line 67
LooksAbsolute(src) ==
    \/ StartsWith(src, <<"http", ":", "/", "/">>)
    \/ StartsWith(src, <<"https", ":", "/", "/">>)

\* lines 67-68
AbsoluteSrc(url, src) == IF LooksAbsolute(src) THEN src ELSE UrlJoin(url, src)

\* lines 67-70 raise ValueError: urljoin or urlparse on a malformed src
SrcRaises(url, src) == ~UrlParse(src).ok \/ ~UrlParse(AbsoluteSrc(url, src)).ok

\* line 71
SameNetloc(url, src) == UrlParse(url).netloc = UrlParse(src).netloc

\* lines 33-60: the GET, raise_for_status, the parse of the HTML; a
\* RequestException or any other exception returns [] (lines 78-83)
ScanFetch ==
    /\ scan_pc = "fetch"
    /\ IF ~UrlParse(page_url).ok \/ page_resp.net # "ok"
          \/ RaisesForStatus(page_resp.status)
       THEN /\ scan_pc' = "done"
            /\ scan_result' = <<>>
       ELSE /\ scan_pc' = "loop"
            /\ UNCHANGED scan_result
    /\ UNCHANGED <<page_url, page_resp, tags, t_i, scripts>>
    /\ UNCHANGED notScanVars

\* lines 63-74: one <script> element
ScanTag ==
    /\ scan_pc = "loop"
    /\ t_i <= Len(tags)
    /\ LET src == tags[t_i].value
       IN  IF tags[t_i].has /\ src # <<>>                        \* line 65
           THEN IF SrcRaises(page_url, src)
                THEN \* lines 81-83
                     /\ scan_pc' = "done"
                     /\ scan_result' = <<>>
                     /\ UNCHANGED <<t_i, scripts>>
                ELSE /\ scripts' =
                          IF SameNetloc(page_url, AbsoluteSrc(page_url, src))
                          THEN Append(scripts,
                                      [src |-> AbsoluteSrc(page_url, src),
                                       tag |-> t_i])
                          ELSE scripts
                     /\ t_i' = t_i + 1
                     /\ UNCHANGED <<scan_pc, scan_result>>
           ELSE /\ t_i' = t_i + 1
                /\ UNCHANGED <<scripts, scan_pc, scan_result>>
    /\ UNCHANGED <<page_url, page_resp, tags>>
    /\ UNCHANGED notScanVars

\* line 76
ScanReturn ==
    /\ scan_pc = "loop"
    /\ t_i > Len(tags)
    /\ scan_pc' = "done"
    /\ scan_result' = scripts
    /\ UNCHANGED <<page_url, page_resp, tags, t_i, scripts>>
    /\ UNCHANGED notScanVars

NextScan == ScanFetch \/ ScanTag \/ ScanReturn

ScanIdle ==
    /\ page_url = <<>>
    /\ page_resp = [net |-> "error", status |-> 0]
    /\ tags = <<>>
    /\ scan_pc = "idle"
    /\ t_i = 1
    /\ scripts = <<>>
    /\ scan_result = <<>>

PagePool == { <<"https", ":", "/", "/", "a.co", "/">>,
              <<"https", ":", "/", "/", "a.co", "/", "p", "/", "i">> }

\* src values: none, empty, host-relative, relative, protocol-relative to
\* another host, absolute on another host, absolute on the page's host,
\* the same with the default port spelled out, the same with the host in
\* upper case, and one urlparse rejects
TagPool ==
    { Script(FALSE, <<>>),
      Script(TRUE, <<>>),
      Script(TRUE, <<"/", "x", ".", "js">>),
      Script(TRUE, <<"x", ".", "js">>),
      Script(TRUE, <<"/", "/", "b.co", "/", "y", ".", "js">>),
      Script(TRUE, <<"https", ":", "/", "/", "cdn.b.co", "/", "y", ".", "js">>),
      Script(TRUE, <<"https", ":", "/", "/", "a.co", "/", "x", ".", "js">>),
      Script(TRUE, <<"https", ":", "/", "/", "a.co", ":", "443", "/", "x",
                     ".", "js">>),
      Script(TRUE, <<"https", ":", "/", "/", "A.co", "/", "x", ".", "js">>),
      Script(TRUE, ScriptBad) }

PageAnswers ==
    {[net |-> "error", status |-> 0]}
    \cup {[net |-> "ok", status |-> st] : st \in {200, 300, 404, 500}}

-----------------------------------------------------------------------------
(* The servers the locator talks to *)

ScriptX == <<"https", ":", "/", "/", "a.co", "/", "x", ".", "js">>
ScriptY == <<"https", ":", "/", "/", "a.co", "/", "y">>

ScriptPool == {ScriptX, ScriptY, ScriptBad}

SourcemapBody == [kind |-> "object", keys |-> MapKeys, text |-> <<>>]

\* a script whose last line is the pragma //# sourceMappingURL=<ref>
ScriptWithPragma(ref) ==
    [kind |-> "invalid", keys |-> {},
     text |-> <<"code", "NL", "/", "/", "#", " ", "sourceMappingURL=">>
              \o ref \o <<"NL">>]

PlainScript == [kind |-> "invalid", keys |-> {}, text |-> <<"code", "NL">>]

Answer(net, status, body) ==
    Response(net, status, body.kind, body.keys, body.text)

NoAnswer == Response("error", 0, "invalid", {}, <<>>)

\* the file name of a URL: the tokens after the last "/"
FileName(url) == Drop(url, LastIndexOf(url, "/"))

\* Behaviours of the remote hosts, each a function of the URL asked for:
\*  "jsmap"     plain scripts; only URLs ending .js.map are sourcemaps
\*  "pragma"    scripts name <file>.map in a pragma; every other URL is a
\*              sourcemap
\*  "elsewhere" scripts name m.map in a pragma; m.map and <name>.map are
\*              sourcemaps, the rest are JSON arrays
\*  "odd"       plain scripts; every other URL answers 404 with a sourcemap
\*              as its body
\*  "down"      no request gets an answer
\*  "partial"   scripts answer 404; every other URL is a JSON object
\*              without "mappings"
ServerPool == {"jsmap", "pragma", "elsewhere", "odd", "down", "partial"}

Respond(srv, url) ==
    IF ~UrlParse(url).ok \/ srv = "down" THEN NoAnswer
    ELSE IF url \in ScriptPool
    THEN CASE srv = "pragma" ->
                Answer("ok", 200,
                       ScriptWithPragma(FileName(url) \o <<".", "map">>))
           [] srv = "elsewhere" ->
                Answer("ok", 200, ScriptWithPragma(<<"m", ".", "map">>))
           [] srv = "partial" ->
                Answer("ok", 404,
                       ScriptWithPragma(FileName(url) \o <<".", "map">>))
           [] OTHER -> Answer("ok", 200, PlainScript)
    ELSE CASE srv = "jsmap" ->
                IF EndsWith(url, <<".", "js", ".", "map">>)
                THEN Answer("ok", 200, SourcemapBody)
                ELSE Answer("ok", 404, PlainScript)
           [] srv = "pragma" -> Answer("ok", 200, SourcemapBody)
           [] srv = "elsewhere" ->
                IF Len(FileName(url)) = 3
                THEN Answer("ok", 200, SourcemapBody)
                ELSE Answer("ok", 200,
                            [kind |-> "array", keys |-> {}, text |-> <<>>])
           [] srv = "odd" -> Answer("ok", 404, SourcemapBody)
           [] OTHER ->
                Answer("ok", 200,
                       [kind |-> "object", keys |-> {"version", "file"},
                        text |-> <<>>])

-----------------------------------------------------------------------------
(* download_sourcemap (lines 405-419) *)

DownloadAnswers ==
    {NoAnswer}
    \cup {Response("ok", st, kind, IF kind = "object" THEN MapKeys ELSE {},
                   <<>>) :
             st \in {200, 300, 404, 500},
             kind \in {"object", "array", "invalid"}}

\* line 407: NamedTemporaryFile(delete=False) creates a new, empty file
DownloadCall ==
    /\ d_pc \in {"idle", "returned", "raised"}
    /\ d_calls < MaxCalls
    /\ d_resp' \in DownloadAnswers
    /\ d_calls' = d_calls + 1
    /\ temp_filename' = d_calls + 1
    /\ temp_files' = temp_files \cup {d_calls + 1}
    /\ d_pc' = "created"
    /\ UNCHANGED notDlVars

\* lines 408-411: the GET, raise_for_status, the write; an exception leaves
\* the with block, which closes the file, and then the function
DownloadFetch ==
    /\ d_pc = "created"
    /\ d_pc' = IF d_resp.net # "ok" \/ RaisesForStatus(d_resp.status)
               THEN "raised" ELSE "fetched"
    /\ UNCHANGED <<d_resp, d_calls, temp_files, temp_filename>>
    /\ UNCHANGED notDlVars

\* lines 414-415: json.load raises on a body that is not JSON
DownloadLoad ==
    /\ d_pc = "fetched"
    /\ d_pc' = IF d_resp.kind = "invalid" THEN "raised" ELSE "loaded"
    /\ UNCHANGED <<d_resp, d_calls, temp_files, temp_filename>>
    /\ UNCHANGED notDlVars

\* os.remove (line 418)
RemoveFile(fs, name) == fs \ {name}

\* lines 418-419
DownloadRemove ==
    /\ d_pc = "loaded"
    /\ temp_files' = RemoveFile(temp_files, temp_filename)
    /\ d_pc' = "returned"
    /\ UNCHANGED <<d_resp, d_calls, temp_filename>>
    /\ UNCHANGED notDlVars

NextDownload == DownloadCall \/ DownloadFetch \/ DownloadLoad \/ DownloadRemove

DownloadIdle ==
    /\ d_resp = NoAnswer
    /\ d_pc = "off"
    /\ d_calls = 0
    /\ temp_files = {}
    /\ temp_filename = 0

-----------------------------------------------------------------------------
(* The probe of one script URL: check_single_script_async (lines 185-224)  *)
(* and the body of the loop of check_for_sourcemaps_sync (lines 149-180).  *)
(* A probe runs from one request to the next; pc names the request it is   *)
(* waiting for.                                                            *)

NewTask == [pc |-> "new", comment |-> <<>>, target |-> <<>>,
            sourcemaps |-> <<>>, k |-> 0, accessible |-> <<>>, log |-> <<>>]

Ev(ev, kind, url) == [ev |-> ev, kind |-> kind, url |-> url]

Finished(t) == t.pc \in {"done", "raised"}

\* path.rsplit(".", 1)[0] if "." in path else path (lines 233, 322)
BasePath(path) ==
    IF Contains(path, ".") THEN SubSeq(path, 1, LastIndexOf(path, ".") - 1)
    ELSE path

\* lines 235-242 and 325-332
CommonPatterns(script_url) ==
    LET path == UrlParse(script_url).path
        base_path == BasePath(path)
    IN  << base_path \o <<".", "map">>,
           base_path \o <<".", "js", ".", "map">>,
           base_path \o <<".", "css", ".", "map">>,
           path \o <<".", "map">>,
           path \o <<".", "js", ".", "map">>,
           path \o <<".", "css", ".", "map">> >>

\* lines 246 and 336
PatternUrl(script_url, k) ==
    UrlString(UrlParse(script_url).scheme, UrlParse(script_url).netloc,
              CommonPatterns(script_url)[k])

\* a loop over the patterns that stops at the first hit
NextPatternStopAtHit(k, valid) == IF valid THEN 7 ELSE k + 1

\* lines 245-248 and 335-338: the loop goes on to the next pattern whether
\* or not this one validated
NextPattern(k, valid) == k + 1

\* a merge that appends every pattern hit, already listed or not
MergePatternsKeepAll(sourcemaps, common) ==
    sourcemaps \o [j \in 1..Len(common) |->
                      [url |-> common[j], method |-> "pattern"]]

\* lines 220-222 and 176-178: patterns not yet in the list are appended
RECURSIVE MergePatterns(_, _)
MergePatterns(sourcemaps, common) ==
    IF common = <<>> THEN sourcemaps
    ELSE IF \E j \in 1..Len(sourcemaps) : sourcemaps[j].url = Head(common)
    THEN MergePatterns(sourcemaps, Tail(common))
    ELSE MergePatterns(
             Append(sourcemaps, [url |-> Head(common), method |-> "pattern"]),
             Tail(common))

\* lines 217 / 175, 231-246 / 320-336: urlparse of the script URL (which may
\* raise) and the first pattern request
ToPatterns(t, u) ==
    IF ~UrlParse(u).ok THEN [t EXCEPT !.pc = "raised"]
    ELSE [t EXCEPT !.pc = "await_pattern", !.k = 1,
                   !.log = Append(@, Ev("send", "pattern", PatternUrl(u, 1)))]

\* one step of a probe of script URL u: from the answer it waits for (or
\* from its start) up to its next request, its end or its exception
ProbeStep(t, u, mode, srv) ==
    CASE t.pc = "new" ->
           \* lines 199 / 155: a GET of a malformed URL raises and is caught
           IF UrlParse(u).ok
           THEN [t EXCEPT !.pc = "await_body",
                          !.log = Append(@, Ev("send", "body", u))]
           ELSE ToPatterns(t, u)
      [] t.pc = "await_body" ->
           \* lines 200-205 / 158-163
           LET resp == Respond(srv, u)
               c == find_sourcemap_comment(resp.text)
               t1 == [t EXCEPT !.log = Append(@, Ev("recv", "body", u))]
           IN  IF resp.net = "ok" /\ resp.status = 200 /\ c.found
               THEN [t1 EXCEPT !.pc = "await_comment",
                               !.comment = c.ref,
                               !.target = UrlJoin(u, c.ref),
                               !.log = Append(@, Ev("send", "comment",
                                                    UrlJoin(u, c.ref)))]
               ELSE ToPatterns(t1, u)
      [] t.pc = "await_comment" ->
           \* lines 205-212 / 163-170
           LET valid == Validate(mode, Respond(srv, t.target))
               t1 == [t EXCEPT
                        !.log = Append(@, Ev("recv", "comment", t.target)),
                        !.sourcemaps =
                            IF valid
                            THEN <<[url |-> t.target, method |-> "comment",
                                    comment |-> t.comment]>>
                            ELSE <<>>]
           IN  ToPatterns(t1, u)
      [] t.pc = "await_pattern" ->
           \* lines 245-250, 220-224 / 335-340, 176-178
           LET url == PatternUrl(u, t.k)
               valid == Validate(mode, Respond(srv, url))
               acc == IF valid THEN Append(t.accessible, url)
                      ELSE t.accessible
               nk == NextPattern(t.k, valid)
               t1 == [t EXCEPT !.log = Append(@, Ev("recv", "pattern", url)),
                               !.accessible = acc]
           IN  IF nk <= Len(CommonPatterns(u))
               THEN [t1 EXCEPT !.k = nk,
                               !.log = Append(@, Ev("send", "pattern",
                                                    PatternUrl(u, nk)))]
               ELSE [t1 EXCEPT !.pc = "done",
                               !.sourcemaps = MergePatterns(@, acc)]
      [] OTHER -> t

-----------------------------------------------------------------------------
(* check_for_sourcemaps_sync (lines 138-182): the proxy mode *)

NoResults == [u \in {} |-> <<>>]

\* results[key] = value
Put(results, key, value) ==
    [u \in DOMAIN results \cup {key} |-> IF u = key THEN value ELSE results[u]]

\* one blocking request of the probe of script_urls[s_i]
SyncProbe ==
    /\ lcall = "sync"
    /\ s_i <= Len(script_urls)
    /\ ~Finished(s_task)
    /\ s_task' = ProbeStep(s_task, script_urls[s_i], "sync", server)
    /\ UNCHANGED <<script_urls, server, lcall, s_i, s_results, s_status,
                   tasks, arrival, a_results>>
    /\ UNCHANGED notLocVars

\* line 180, and on to the next script URL
SyncStore ==
    /\ lcall = "sync"
    /\ s_i <= Len(script_urls)
    /\ s_task.pc = "done"
    /\ s_results' = Put(s_results, script_urls[s_i], s_task.sourcemaps)
    /\ s_i' = s_i + 1
    /\ s_task' = NewTask
    /\ UNCHANGED <<script_urls, server, lcall, s_status, tasks, arrival,
                   a_results>>
    /\ UNCHANGED notLocVars

\* line 175 is outside the try of lines 154-172: the ValueError of urlparse
\* leaves the loop and the function
SyncRaise ==
    /\ lcall = "sync"
    /\ s_i <= Len(script_urls)
    /\ s_task.pc = "raised"
    /\ s_status' = "raised"
    /\ lcall' = "between"
    /\ UNCHANGED <<script_urls, server, s_i, s_task, s_results, tasks,
                   arrival, a_results>>
    /\ UNCHANGED notLocVars

\* line 182
SyncReturn ==
    /\ lcall = "sync"
    /\ s_i > Len(script_urls)
    /\ s_status' = "returned"
    /\ lcall' = "between"
    /\ UNCHANGED <<script_urls, server, s_i, s_task, s_results, tasks,
                   arrival, a_results>>
    /\ UNCHANGED notLocVars

-----------------------------------------------------------------------------
(* check_for_sourcemaps without a proxy (lines 94-135) *)

\* the indices in 1..n of finished tasks, in increasing order
RECURSIVE FinishedUpTo(_, _)
FinishedUpTo(tks, n) ==
    IF n = 0 THEN <<>>
    ELSE FinishedUpTo(tks, n - 1)
         \o (IF Finished(tks[n]) THEN <<n>> ELSE <<>>)

\* lines 129-133: what gather hands back for a task
TaskValue(t) == IF t.pc = "raised" THEN <<>> ELSE t.sourcemaps

LastIndexOfUrl(u) ==
    CHOOSE i \in 1..Len(script_urls) :
        /\ script_urls[i] = u
        /\ \A j \in (i + 1)..Len(script_urls) : script_urls[j] # u

\* results filled in the order the tasks finished instead of the order of
\* script_urls
CollectByArrival ==
    [u \in {script_urls[i] : i \in 1..Len(script_urls)} |->
        TaskValue(tasks[arrival[LastIndexOfUrl(u)]])]

\* lines 128-133: zip(script_urls, completed_tasks); a later entry for the
\* same URL replaces an earlier one
CollectResults ==
    [u \in {script_urls[i] : i \in 1..Len(script_urls)} |->
        TaskValue(tasks[LastIndexOfUrl(u)])]

\* lines 117-125: every task is created and runs up to its first request
AsyncCall ==
    /\ lcall = "between"
    /\ tasks' = [i \in 1..Len(script_urls) |->
                    ProbeStep(NewTask, script_urls[i], "async", server)]
    /\ arrival' = FinishedUpTo(tasks', Len(script_urls))
    /\ lcall' = "async"
    /\ UNCHANGED <<script_urls, server, s_i, s_task, s_results, s_status,
                   a_results>>
    /\ UNCHANGED notLocVars

\* the answer task i waits for arrives and the task runs on
AsyncResume(i) ==
    /\ lcall = "async"
    /\ ~Finished(tasks[i])
    /\ LET t == ProbeStep(tasks[i], script_urls[i], "async", server)
       IN  /\ tasks' = [tasks EXCEPT ![i] = t]
           /\ arrival' = IF Finished(t) THEN Append(arrival, i) ELSE arrival
    /\ UNCHANGED <<script_urls, server, lcall, s_i, s_task, s_results,
                   s_status, a_results>>
    /\ UNCHANGED notLocVars

\* lines 125-135: gather returns when every task has finished
AsyncGather ==
    /\ lcall = "async"
    /\ \A i \in 1..Len(script_urls) : Finished(tasks[i])
    /\ a_results' = CollectResults
    /\ lcall' = "done"
    /\ UNCHANGED <<script_urls, server, s_i, s_task, s_results, s_status,
                   tasks, arrival>>
    /\ UNCHANGED notLocVars

NextLocate ==
    \/ SyncProbe \/ SyncStore \/ SyncRaise \/ SyncReturn
    \/ AsyncCall
    \/ \E i \in 1..Len(script_urls) : AsyncResume(i)
    \/ AsyncGather

\* the locator is not running
LocatorIdle ==
    /\ script_urls = <<>>
    /\ server = "down"
    /\ lcall = "idle"
    /\ s_i = 1
    /\ s_task = NewTask
    /\ s_results = NoResults
    /\ s_status = "running"
    /\ tasks = <<>>
    /\ arrival = <<>>
    /\ a_results = NoResults

-----------------------------------------------------------------------------
(* Validation of one response *)

ValidationIdle ==
    /\ vresp = NoAnswer
    /\ vmode = "none"
    /\ vresult = "pending"

BoolStr(b) == IF b THEN "true" ELSE "false"

\* check_if_exists_and_is_map(session, url) with vresp the answer
ValidateAsync ==
    /\ vresult = "pending"
    /\ vmode = "none"
    /\ vmode' = "async"
    /\ vresult' = BoolStr(CheckIfExistsAndIsMap(vresp))
    /\ UNCHANGED vresp
    /\ UNCHANGED notValVars

\* check_url_exists(url) with vresp the answer
ValidateSync ==
    /\ vresult = "pending"
    /\ vmode = "none"
    /\ vmode' = "sync"
    /\ vresult' = BoolStr(CheckUrlExists(vresp))
    /\ UNCHANGED vresp
    /\ UNCHANGED notValVars

NextValidate == ValidateAsync \/ ValidateSync

\* answers: a network error or timeout, or a status with a body that is
\* not JSON, a JSON scalar, a JSON array, or a JSON object with any of the
\* keys version, file, mappings, sources
AnswerPool ==
    {Response(n, 0, "invalid", {}, <<>>) : n \in {"timeout", "refused"}}
    \cup {Response("ok", st, kind, {}, <<>>) :
              st \in {200, 204, 404, 500},
              kind \in {"invalid", "scalar", "array"}}
    \cup {Response("ok", st, "object", ks, <<>>) :
              st \in {200, 204, 404, 500},
              ks \in SUBSET (MapKeys \cup {"sources"})}

-----------------------------------------------------------------------------
(* extract_source_files: path sanitization (lines 480-522) *)

WebpackPrefix3 == <<"webpack", ":", "/", "/", "/">>
WebpackPrefix2 == <<"webpack", ":", "/", "/">>

\* lines 482-486: remove "webpack:///" or else "webpack://"
StripWebpackPrefix(source_path) ==
    IF StartsWith(source_path, WebpackPrefix3)
    THEN Drop(source_path, Len(WebpackPrefix3))
    ELSE IF StartsWith(source_path, WebpackPrefix2)
    THEN Drop(source_path, Len(WebpackPrefix2))
    ELSE source_path

\* lines 489-490: remove one leading "/"
StripLeadingSlash(p) == IF StartsWith(p, <<"/">>) THEN Drop(p, 1) ELSE p

\* line 501
InvalidChars == {"<", ">", ":", "\"", "|", "?", "*", "\\"}

DotDot == <<".", ".">>
Dot == <<".">>

\* lines 499-507: reserved characters become "_", control characters go
SanitizePart(part) ==
    RemoveTokens(ReplaceTokens(part, InvalidChars, "_"), ControlChars)

\* line 497: the test a split part must pass to be looked at
PartAccepted(part) == part \notin {DotDot, Dot} /\ ~IsBlank(part)

\* lines 495-510
RECURSIVE SanitizeParts(_)
SanitizeParts(path_parts) ==
    IF path_parts = <<>> THEN <<>>
    ELSE LET part == Head(path_parts)
             rest == SanitizeParts(Tail(path_parts))
         IN  IF PartAccepted(part) /\ ~IsBlank(SanitizePart(part))
             THEN <<SanitizePart(part)>> \o rest
             ELSE rest

\* lines 482-513: the relative path joined to the output root
CleanPath(source_path) ==
    JoinWith(SanitizeParts(SplitOn(StripLeadingSlash(
                 StripWebpackPrefix(source_path)), "/")), "/")

-----------------------------------------------------------------------------
(* Paths and the file system.  A path is a sequence of segments from the   *)
(* file system root; a segment is a token sequence.                        *)

OutDir == <<"out">>          \* the name of the output directory
OutputPath == <<OutDir>>     \* output_path (line 442), below the fs root

\* pathlib's "/" (line 516): the right side is split on "/", and empty and
\* "." segments are dropped; ".." segments are kept
RECURSIVE NonTrivial(_)
NonTrivial(segs) ==
    IF segs = <<>> THEN <<>>
    ELSE (IF Head(segs) \in {<<>>, Dot} THEN <<>> ELSE <<Head(segs)>>)
         \o NonTrivial(Tail(segs))

PathJoin(base, rel) == base \o NonTrivial(SplitOn(rel, "/"))

\* len(str(file_path)) for a path below output_path (line 519)
RECURSIVE SegsStrLen(_)
SegsStrLen(segs) ==
    IF segs = <<>> THEN 0 ELSE 1 + StrLen(Head(segs)) + SegsStrLen(Tail(segs))

PathStrLen(rl, file_path) == rl + SegsStrLen(Drop(file_path, Len(OutputPath)))

\* line 519
PathLimit == 250

DigitStr(n) == <<"0", "1", "2", "3", "4", "5", "6", "7", "8", "9">>[n + 1]

RECURSIVE Decimal(_)
Decimal(n) == IF n < 10 THEN <<DigitStr(n)>>
              ELSE Decimal(n \div 10) \o <<DigitStr(n % 10)>>

\* format i:04d
RECURSIVE ZeroPad(_, _)
ZeroPad(s, width) == IF Len(s) >= width THEN s ELSE ZeroPad(<<"0">> \o s, width)

\* lines 521 and 532: f"source_{i:04d}.js"
FallbackFilename(i) == <<"source_">> \o ZeroPad(Decimal(i), 4) \o <<".", "js">>

Parent(p) == IF p = <<>> THEN <<>> ELSE SubSeq(p, 1, Len(p) - 1)

\* the directory a path of existing directories names (".." goes up)
RECURSIVE Resolve(_, _)
Resolve(cur, segs) ==
    IF segs = <<>> THEN cur
    ELSE IF Head(segs) = DotDot THEN Resolve(Parent(cur), Tail(segs))
    ELSE Resolve(Append(cur, Head(segs)), Tail(segs))

\* Path.mkdir(parents=True, exist_ok=True) (line 526): every missing
\* directory on the way is created; a regular file on the way is an OSError
RECURSIVE MkdirWalk(_, _, _, _)
MkdirWalk(d, f, cur, segs) ==
    IF segs = <<>> THEN [ok |-> TRUE, dirs |-> d]
    ELSE IF Head(segs) = DotDot THEN MkdirWalk(d, f, Parent(cur), Tail(segs))
    ELSE LET nxt == Append(cur, Head(segs))
         IN  IF nxt \in DOMAIN f THEN [ok |-> FALSE, dirs |-> d]
             ELSE MkdirWalk(d \cup {nxt}, f, nxt, Tail(segs))

MkdirParents(d, f, dir_path) == MkdirWalk(d, f, <<>>, dir_path)

\* open(file_path, "x"): an existing file is an error instead of overwritten
WriteFileExclusive(d, f, file_path, content) ==
    LET last == file_path[Len(file_path)]
        target == Append(Resolve(<<>>, Parent(file_path)), last)
    IN  IF last = DotDot \/ target \in d \/ target \in DOMAIN f
        THEN [ok |-> FALSE, files |-> f]
        ELSE [ok |-> TRUE,
              files |-> [p \in DOMAIN f \cup {target} |->
                            IF p = target THEN content ELSE f[p]]]

\* open(file_path, "w") and f.write (lines 541-542), in existing directories:
\* a directory at the target is an error, a file there is overwritten
WriteFile(d, f, file_path, content) ==
    LET last == file_path[Len(file_path)]
        target == Append(Resolve(<<>>, Parent(file_path)), last)
    IN  IF last = DotDot \/ target \in d
        THEN [ok |-> FALSE, files |-> f]
        ELSE [ok |-> TRUE,
              files |-> [p \in DOMAIN f \cup {target} |->
                            IF p = target THEN content ELSE f[p]]]

\* "SURR" is a lone surrogate (U+D800, "\ud800" in the JSON document): an
\* ordinary character of a str, but one neither the file system encoding
\* nor the encoding of stdout can encode (UnicodeEncodeError, a ValueError)
Encodable(s) == ~Contains(s, "SURR")

PathEncodable(segs) == \A k \in 1..Len(segs) : Encodable(segs[k])

\* the file a written path names
ResolvedFile(file_path) ==
    Append(Resolve(<<>>, Parent(file_path)), file_path[Len(file_path)])

-----------------------------------------------------------------------------
(* extract_source_files (lines 438-551) *)

NoFiles == [p \in {} |-> ""]

Skipped == [kind |-> "skipped", path |-> <<>>, fallback |-> FALSE]

\* the entry at which an exception left the function
Raised(path, fallback) == [kind |-> "raised", path |-> path,
                           fallback |-> fallback]

\* lines 480-546, one entry with content: the sanitized path, the long-path
\* fallback, the directories, the mkdir fallback, the write
ProcessEntry(i, source_path, content, d, f, rl) ==
    LET clean_path == CleanPath(source_path)
        joined == PathJoin(OutputPath, clean_path)
        tooLong == PathStrLen(rl, joined) > PathLimit
        file_path == IF tooLong
                     THEN PathJoin(OutputPath, FallbackFilename(i))
                     ELSE joined
        mk == MkdirParents(d, f, Parent(file_path))
        final_path == IF mk.ok THEN file_path
                      ELSE PathJoin(OutputPath, FallbackFilename(i))
        wr == WriteFile(mk.dirs, f, final_path, content)
    IN  IF \/ tooLong /\ ~Encodable(clean_path)            \* print, line 520
           \/ ~PathEncodable(Parent(file_path))            \* mkdir, line 526
           \/ ~mk.ok /\ ~PathEncodable(file_path)          \* print, line 528
        THEN \* an exception no handler of the loop catches
             [dirs |-> d, files |-> f, wrote |-> FALSE, raised |-> TRUE,
              path |-> file_path, fallback |-> tooLong]
        ELSE IF ~PathEncodable(final_path)
        THEN \* open raises (line 541), and so does the print of line 546
             [dirs |-> mk.dirs, files |-> f, wrote |-> FALSE, raised |-> TRUE,
              path |-> final_path, fallback |-> tooLong \/ ~mk.ok]
        ELSE [dirs |-> mk.dirs, files |-> wr.files, wrote |-> wr.ok,
              raised |-> FALSE,
              path |-> final_path, fallback |-> tooLong \/ ~mk.ok]

\* line 475: zip stops at the shorter list
ZipLen(a, b) == IF Len(a) <= Len(b) THEN Len(a) ELSE Len(b)

\* a check that lets a length mismatch through
AbortsOnlyWithoutContent(srcs, conts) == conts = <<>>

\* lines 449-469: the checks that end the call before the loop.  The block
\* under "if not sources" iterates the empty list and changes nothing.
AbortsBeforeLoop(srcs, conts) == conts = <<>> \/ Len(srcs) # Len(conts)

\* lines 442-473
ExtractStart ==
    /\ xpc = "start"
    /\ dirs' = dirs \cup {OutputPath}
    /\ IF AbortsBeforeLoop(sources, sources_content)
       THEN /\ xpc' = "done"
            /\ returned' = "None"
            /\ UNCHANGED <<idx, extracted_files>>
       ELSE /\ xpc' = "loop"
            /\ idx' = 1
            /\ extracted_files' = <<>>
            /\ UNCHANGED returned
    /\ UNCHANGED <<sources, sources_content, rootLen, files, outcome, run, prev>>
    /\ UNCHANGED notExVars

\* the loop body with the fallback index taken from the number of files
\* written so far instead of the entry's position
ExtractEntryCountingWritten ==
    /\ xpc = "loop"
    /\ idx <= ZipLen(sources, sources_content)
    /\ IF sources_content[idx] = NULL
       THEN \* lines 476-478; the print raises on a path stdout cannot encode
            IF Encodable(sources[idx])
            THEN /\ outcome' = Append(outcome, Skipped)
                 /\ idx' = idx + 1
                 /\ UNCHANGED <<dirs, files, extracted_files, xpc, returned>>
            ELSE /\ outcome' = Append(outcome, Raised(<<>>, FALSE))
                 /\ xpc' = "done"
                 /\ returned' = "raised"
                 /\ UNCHANGED <<dirs, files, extracted_files, idx>>
       ELSE LET r == ProcessEntry(Len(extracted_files), sources[idx],
                                  sources_content[idx], dirs, files, rootLen)
            IN  /\ dirs' = r.dirs
                /\ files' = r.files
                /\ extracted_files' = IF r.wrote
                                      THEN Append(extracted_files, r.path)
                                      ELSE extracted_files
                /\ IF r.raised
                   THEN /\ outcome' = Append(outcome,
                                             Raised(r.path, r.fallback))
                        /\ xpc' = "done"
                        /\ returned' = "raised"
                        /\ UNCHANGED idx
                   ELSE /\ outcome' = Append(outcome,
                               [kind |-> IF r.wrote THEN "written"
                                         ELSE "failed",
                                path |-> r.path, fallback |-> r.fallback])
                        /\ idx' = idx + 1
                        /\ UNCHANGED <<xpc, returned>>
    /\ UNCHANGED <<sources, sources_content, rootLen, run, prev>>
    /\ UNCHANGED notExVars

\* lines 475-546: one iteration of the loop
ExtractEntry ==
    /\ xpc = "loop"
    /\ idx <= ZipLen(sources, sources_content)
    /\ IF sources_content[idx] = NULL
       THEN \* lines 476-478; the print raises on a path stdout cannot encode
            IF Encodable(sources[idx])
            THEN /\ outcome' = Append(outcome, Skipped)
                 /\ idx' = idx + 1
                 /\ UNCHANGED <<dirs, files, extracted_files, xpc, returned>>
            ELSE /\ outcome' = Append(outcome, Raised(<<>>, FALSE))
                 /\ xpc' = "done"
                 /\ returned' = "raised"
                 /\ UNCHANGED <<dirs, files, extracted_files, idx>>
       ELSE LET r == ProcessEntry(idx - 1, sources[idx], sources_content[idx],
                                  dirs, files, rootLen)
            IN  /\ dirs' = r.dirs
                /\ files' = r.files
                /\ extracted_files' = IF r.wrote
                                      THEN Append(extracted_files, r.path)
                                      ELSE extracted_files
                /\ IF r.raised
                   THEN /\ outcome' = Append(outcome,
                                             Raised(r.path, r.fallback))
                        /\ xpc' = "done"
                        /\ returned' = "raised"
                        /\ UNCHANGED idx
                   ELSE /\ outcome' = Append(outcome,
                               [kind |-> IF r.wrote THEN "written"
                                         ELSE "failed",
                                path |-> r.path, fallback |-> r.fallback])
                        /\ idx' = idx + 1
                        /\ UNCHANGED <<xpc, returned>>
    /\ UNCHANGED <<sources, sources_content, rootLen, run, prev>>
    /\ UNCHANGED notExVars

\* lines 548-551
ExtractReturn ==
    /\ xpc = "loop"
    /\ idx > ZipLen(sources, sources_content)
    /\ xpc' = "done"
    /\ returned' = "list"
    /\ UNCHANGED <<sources, sources_content, rootLen, idx, dirs, files,
                   extracted_files, outcome, run, prev>>
    /\ UNCHANGED notExVars

\* the caller runs extract_source_files(sourcemap_json, output_dir) once
\* more on the same document and output directory
ExtractAgain ==
    /\ xpc = "done"
    /\ run = 1
    /\ prev' = [dirs |-> dirs, files |-> files,
                extracted |-> extracted_files, returned |-> returned,
                outcome |-> outcome]
    /\ run' = 2
    /\ xpc' = "start"
    /\ idx' = 1
    /\ extracted_files' = <<>>
    /\ returned' = "pending"
    /\ outcome' = <<>>
    /\ UNCHANGED <<sources, sources_content, rootLen, dirs, files>>
    /\ UNCHANGED notExVars

NextExtract == ExtractStart \/ ExtractEntry \/ ExtractReturn \/ ExtractAgain

\* len(str(output_path)): a short output directory, and one so long that a
\* relative path of five characters passes the limit of line 519
RootLens == {4, 245}

ContentPool == {NULL, "x", "y"}

\* source paths of the extraction runs: plain, nested below another entry,
\* a webpack:/// spelling of the first, the fallback name of the second
\* entry and a path below it, a
\* name too long below the long output directory, one whose ".." survives
\* sanitization, one that sanitizes to nothing, and one below a directory
\* whose name cannot be encoded
PathPool ==
    { <<"a">>,
      <<"a", "/", "b">>,
      <<"webpack", ":", "/", "/", "/", "a">>,
      FallbackFilename(1),
      FallbackFilename(1) \o <<"/", "b">>,
      <<"webpack", "/", "b">>,
      <<"SOH", ".", ".", "/", "b">>,
      <<".", "/", ".", ".">>,
      <<"SURR", "/", "c">> }

ExtractBegin ==
    /\ xpc = "start"
    /\ idx = 1
    /\ dirs = {<<>>, OutputPath}
    /\ files = NoFiles
    /\ extracted_files = <<>>
    /\ returned = "pending"
    /\ outcome = <<>>
    /\ run = 1
    /\ prev = [dirs |-> {}, files |-> NoFiles, extracted |-> <<>>,
               returned |-> "pending", outcome |-> <<>>]

InitExtract ==
    /\ sources \in SeqsUpTo(PathPool, MaxEntries)
    /\ sources_content \in SeqsUpTo(ContentPool, MaxEntries)
    /\ rootLen \in RootLens
    /\ ExtractBegin
    /\ LocatorIdle
    /\ ValidationIdle
    /\ ScanIdle
    /\ FindIdle
    /\ DownloadIdle

SpecExtract == InitExtract /\ [][NextExtract]_vars

\* every source path made of an optional webpack prefix and a short
\* remainder over the characters sanitization treats differently
PathChars == {"/", ".", "a", ":", " ", "SOH"}

PathPrefixes == {<<>>, WebpackPrefix2, WebpackPrefix3}

InitSanitize ==
    /\ \E pre \in PathPrefixes, rest \in SeqsUpTo(PathChars, MaxRest) :
           sources = <<pre \o rest>>
    /\ sources_content \in {<<"x">>}
    /\ rootLen \in RootLens
    /\ ExtractBegin
    /\ LocatorIdle
    /\ ValidationIdle
    /\ ScanIdle
    /\ FindIdle
    /\ DownloadIdle

SpecSanitize == InitSanitize /\ [][NextExtract]_vars

-----------------------------------------------------------------------------
(* The specifications of the locator and of validation *)

ExtractIdle ==
    /\ sources = <<>>
    /\ sources_content = <<>>
    /\ rootLen = 4
    /\ xpc = "idle"
    /\ idx = 1
    /\ dirs = {<<>>}
    /\ files = NoFiles
    /\ extracted_files = <<>>
    /\ returned = "pending"
    /\ outcome = <<>>
    /\ run = 1
    /\ prev = [dirs |-> {}, files |-> NoFiles, extracted |-> <<>>,
               returned |-> "pending", outcome |-> <<>>]

\* the locator is called with a proxy and then, with the same script URLs
\* and the same servers, without one
InitLocate ==
    /\ script_urls \in SeqsUpTo(ScriptPool, MaxScripts)
    /\ server \in ServerPool
    /\ lcall = "sync"
    /\ s_i = 1
    /\ s_task = NewTask
    /\ s_results = NoResults
    /\ s_status = "running"
    /\ tasks = <<>>
    /\ arrival = <<>>
    /\ a_results = NoResults
    /\ ExtractIdle
    /\ ValidationIdle
    /\ ScanIdle
    /\ FindIdle
    /\ DownloadIdle

SpecLocate == InitLocate /\ [][NextLocate]_vars

InitValidate ==
    /\ vresp \in AnswerPool
    /\ vmode = "none"
    /\ vresult = "pending"
    /\ ExtractIdle
    /\ LocatorIdle
    /\ ScanIdle
    /\ FindIdle
    /\ DownloadIdle

SpecValidate == InitValidate /\ [][NextValidate]_vars

InitScan ==
    /\ page_url \in PagePool
    /\ page_resp \in PageAnswers
    /\ tags \in SeqsUpTo(TagPool, MaxTags)
    /\ scan_pc = "fetch"
    /\ t_i = 1
    /\ scripts = <<>>
    /\ scan_result = <<>>
    /\ ExtractIdle
    /\ LocatorIdle
    /\ ValidationIdle
    /\ FindIdle
    /\ DownloadIdle

SpecScan == InitScan /\ [][NextScan]_vars

InitFind ==
    /\ \E pieces \in SeqsUpTo(PiecePool, MaxPieces) :
           script_content = Concat(pieces)
    /\ f_pc = "loop"
    /\ f_k = 1
    /\ f_result = [found |-> FALSE, ref |-> <<>>]
    /\ ExtractIdle
    /\ LocatorIdle
    /\ ValidationIdle
    /\ ScanIdle
    /\ DownloadIdle

SpecFind == InitFind /\ [][NextFind]_vars

InitDownload ==
    /\ d_resp = NoAnswer
    /\ d_pc = "idle"
    /\ d_calls = 0
    /\ temp_files = {}
    /\ temp_filename = 0
    /\ ExtractIdle
    /\ LocatorIdle
    /\ ValidationIdle
    /\ ScanIdle
    /\ FindIdle

SpecDownload == InitDownload /\ [][NextDownload]_vars

-----------------------------------------------------------------------------
(* Properties of the scanner, of validation and of the locator *)

\* urlparse(...).hostname: the netloc without its port, in lower case
HostOf(url) ==
    LET netloc == UrlParse(url).netloc
        host == SubSeq(netloc, 1, LenBefore(netloc, ":"))
    IN  [k \in 1..Len(host) |-> LowerToken(host[k])]

\* C8: get_script_tags returns a <script> element exactly when it has a src
\* attribute and the src, resolved against the page URL when not absolute,
\* has the host of the page URL; a failed fetch or a response that is not
\* 2xx gives the empty list.
C8_SameHostScriptsExactly ==
    scan_pc = "done" =>
        IF page_resp.net = "ok" /\ page_resp.status \in 200..299
        THEN \A j \in 1..Len(tags) :
                 (\E e \in 1..Len(scan_result) : scan_result[e].tag = j)
                 <=> /\ tags[j].has
                     /\ HostOf(AbsoluteSrc(page_url, tags[j].value))
                            = HostOf(page_url)
        ELSE scan_result = <<>>

\* C2: in both modes validation is true exactly when the GET was answered
\* with status 200 and a body that parses as a JSON object with the keys
\* version, file and mappings; everything else is false.
C2_ValidIffOk200Sourcemap ==
    vresult # "pending" =>
        (vresult = "true" <=>
            /\ vresp.net = "ok"
            /\ vresp.status = 200
            /\ vresp.kind = "object"
            /\ MapKeys \subseteq vresp.keys)

UrlSet == {script_urls[i] : i \in 1..Len(script_urls)}

PatternEvents(log) == SelectSeq(log, LAMBDA e : e.kind = "pattern")

\* {base}.map, {base}.js.map, {base}.css.map, {path}.map, {path}.js.map,
\* {path}.css.map on the scheme and host of script URL u
SixCandidates(u) ==
    LET p == UrlParse(u)
        site == <<p.scheme, ":", "/", "/">> \o p.netloc
        base == BasePath(p.path)
    IN  << site \o base \o <<".", "map">>,
           site \o base \o <<".", "js", ".", "map">>,
           site \o base \o <<".", "css", ".", "map">>,
           site \o p.path \o <<".", "map">>,
           site \o p.path \o <<".", "js", ".", "map">>,
           site \o p.path \o <<".", "css", ".", "map">> >>

\* the pattern requests of probe t of script URL u so far are the first of
\* request 1, answer 1, request 2, answer 2, ... over the six candidates in
\* their order, and all twelve once the probe is done
SixInOrder(t, u) ==
    LET pe == PatternEvents(t.log)
    IN  /\ Len(pe) <= 12
        /\ \A j \in 1..Len(pe) :
               pe[j] = Ev(IF j % 2 = 1 THEN "send" ELSE "recv", "pattern",
                          SixCandidates(u)[(j + 1) \div 2])
        /\ t.pc = "done" => Len(pe) = 12
        /\ t.pc = "await_pattern" => Len(pe) % 2 = 1
        /\ (t.pc \in {"await_pattern", "done"}) \/ Len(pe) = 0

\* C3, as stated: for every script URL the pattern-guess strategy issues
\* exactly six validation requests; so every probe that is over has sent
\* six and received six answers.
C3_SixForEveryScriptUrl ==
    \A i \in 1..Len(tasks) :
        Finished(tasks[i]) => Len(PatternEvents(tasks[i].log)) = 12

\* C3, amended: on a script URL urlparse accepts, every run of the
\* pattern-guess strategy issues exactly six validation requests, in the
\* fixed order, each after the answer to the one before, however many
\* validate and however the probes of other script URLs interleave, in both
\* modes; on a script URL urlparse rejects it issues none.
C3_SixPatternsInOrder ==
    /\ \A i \in 1..Len(tasks) : SixInOrder(tasks[i], script_urls[i])
    /\ (lcall = "sync" /\ s_i <= Len(script_urls)) =>
           SixInOrder(s_task, script_urls[s_i])
    /\ \A i \in 1..Len(tasks) :
           (Finished(tasks[i]) /\ UrlParse(script_urls[i]).ok) =>
               tasks[i].pc = "done"

\* two concurrent probes, the first done with several hits, the second
\* halfway through its patterns
C3_Witness ==
    /\ lcall = "async"
    /\ Len(tasks) = 2
    /\ tasks[1].pc = "done"
    /\ Len(tasks[1].accessible) >= 2
    /\ tasks[2].pc = "await_pattern"
    /\ tasks[2].k = 3
    /\ Len(tasks[2].accessible) = 2

\* C4: in both modes an exception in the probe of one script URL yields an
\* empty list for that URL and the call still returns results for every
\* script URL.
C4_ProbeFailureIsolated ==
    /\ lcall \in {"between", "async", "done"} =>
           /\ s_status = "returned"
           /\ DOMAIN s_results = UrlSet
           /\ \A u \in UrlSet : ~UrlParse(u).ok => s_results[u] = <<>>
    /\ lcall = "done" =>
           /\ DOMAIN a_results = UrlSet
           /\ \A u \in UrlSet : ~UrlParse(u).ok => a_results[u] = <<>>

\* C9: for script URLs urlparse accepts and every server behaviour, the
\* proxy mode and the concurrent mode return the same mapping.
C9_SyncEqualsAsync ==
    (lcall = "done" /\ \A u \in UrlSet : UrlParse(u).ok) =>
        /\ s_status = "returned"
        /\ s_results = a_results

NoDuplicateUrls(list) ==
    \A a, b \in 1..Len(list) : list[a].url = list[b].url => a = b

\* C11: the candidate list of a script URL never holds two candidates with
\* the same sourcemap URL, in the probes and in the mappings both modes
\* return; a pragma URL that a pattern also hits stays once, as 'comment'.
C11_NoDuplicateCandidates ==
    /\ \A i \in 1..Len(tasks) :
           /\ NoDuplicateUrls(tasks[i].sourcemaps)
           /\ \A j \in 2..Len(tasks[i].sourcemaps) :
                  tasks[i].sourcemaps[j].method = "pattern"
    /\ NoDuplicateUrls(s_task.sourcemaps)
    /\ \A u \in DOMAIN s_results : NoDuplicateUrls(s_results[u])
    /\ \A u \in DOMAIN a_results : NoDuplicateUrls(a_results[u])

\* a script URL whose path has no '.', so each pattern URL is tried twice,
\* on a server where all six validate and the pragma names the first of
\* them: six hits, three candidates, the first tagged 'comment'
C11_Witness ==
    /\ lcall = "done"
    /\ s_status = "returned"
    /\ ScriptY \in DOMAIN s_results \cap DOMAIN a_results
    /\ \E i \in 1..Len(tasks) :
           /\ script_urls[i] = ScriptY
           /\ Len(tasks[i].accessible) = 6
           /\ tasks[i].accessible[1] = tasks[i].accessible[4]
           /\ Len(a_results[ScriptY]) = 3
           /\ a_results[ScriptY][1].method = "comment"
           /\ a_results[ScriptY][1].url = tasks[i].accessible[1]
           /\ Len(s_results[ScriptY]) = 3

\* C10: whatever the interleaving and the order in which the probes
\* finish, the mapping returned by the concurrent locator has exactly the
\* distinct script URLs as keys, and the value under u is the list (empty
\* for an exception) of a probe of u.
C10_ResultsKeyedByUrl ==
    lcall = "done" =>
        /\ DOMAIN a_results = UrlSet
        /\ \A u \in UrlSet :
               \E i \in 1..Len(script_urls) :
                   /\ script_urls[i] = u
                   /\ a_results[u] = TaskValue(tasks[i])

\* two different script URLs with different, non-empty candidate lists,
\* the second probe finishing before the first
C10_Witness ==
    /\ lcall = "done"
    /\ Len(script_urls) = 2
    /\ arrival = <<2, 1>>
    /\ script_urls[1] # script_urls[2]
    /\ a_results[script_urls[1]] # <<>>
    /\ a_results[script_urls[2]] # <<>>
    /\ a_results[script_urls[1]] # a_results[script_urls[2]]

-----------------------------------------------------------------------------
(* Properties of extract_source_files *)

IsUnder(p, base) == Len(p) > Len(base) /\ SubSeq(p, 1, Len(base)) = base

HasInvalidChar(s) == \E k \in 1..Len(s) : s[k] \in InvalidChars

\* C1: path sanitization is total: for every source path the relative path
\* joined to the output root has no "." or ".." segment and no reserved
\* character, and every file written lies under the output root.
C1_SanitizationTotal ==
    /\ \A p \in DOMAIN files : IsUnder(p, OutputPath)
    /\ \A k \in 1..Len(outcome) :
           outcome[k].kind # "skipped" =>
               LET parts == SplitOn(CleanPath(sources[k]), "/")
               IN  \A j \in 1..Len(parts) :
                       parts[j] \notin {Dot, DotDot} /\ ~HasInvalidChar(parts[j])

\* C5: with sources empty, or sourcesContent empty, or the two of different
\* lengths, the call ends before the loop: no entry is processed, no file
\* exists afterwards and the call returns without a list.
C5_AbortWritesNothing ==
    (sources = <<>> \/ sources_content = <<>>
        \/ Len(sources) # Len(sources_content)) =>
        /\ files = NoFiles
        /\ outcome = <<>>
        /\ extracted_files = <<>>
        /\ xpc # "loop"
        /\ (xpc = "done" => returned = "None")

C5_Witness ==
    /\ xpc = "done"
    /\ run = 1
    /\ Len(sources) = 2
    /\ Len(sources_content) = 1
    /\ sources_content[1] # NULL
    /\ returned = "None"

\* the outcomes of the loop (lines 475-546) from entry k on, starting from
\* directories d and files f
RECURSIVE LoopOutcomes(_, _, _, _, _, _)
LoopOutcomes(k, srcs, conts, d, f, rl) ==
    IF k > ZipLen(srcs, conts) THEN <<>>
    ELSE IF conts[k] = NULL
    THEN IF Encodable(srcs[k])
         THEN <<Skipped>> \o LoopOutcomes(k + 1, srcs, conts, d, f, rl)
         ELSE <<Raised(<<>>, FALSE)>>
    ELSE LET r == ProcessEntry(k - 1, srcs[k], conts[k], d, f, rl)
         IN  IF r.raised THEN <<Raised(r.path, r.fallback)>>
             ELSE <<[kind |-> IF r.wrote THEN "written" ELSE "failed",
                     path |-> r.path, fallback |-> r.fallback]>>
                  \o LoopOutcomes(k + 1, srcs, conts, r.dirs, r.files, rl)

\* C6 as stated: every entry after a null entry is written to the same path
\* as it would be if the null entry had held content.
C6_SameAsIfNullHeldContent ==
    (run = 1 /\ xpc = "done" /\ returned = "list") =>
        \A k \in 1..Len(sources) :
            sources_content[k] = NULL =>
                \A c \in ContentPool \ {NULL} :
                    LET alt == LoopOutcomes(1, sources,
                                   [sources_content EXCEPT ![k] = c],
                                   {<<>>, OutputPath}, NoFiles, rootLen)
                    IN  \A j \in (k + 1)..Len(sources) :
                            (sources_content[j] # NULL /\ j <= Len(alt)) =>
                                outcome[j] = alt[j]

\* C6 as amended: the iteration of a null entry changes no file, no
\* directory and not the result, and moves the loop on (unless its path
\* cannot be printed, which ends the call with an exception); the iteration
\* of an entry with content uses the entry's own position for the fallback
\* name: its path is its sanitized path or source_{position}.js, and when it
\* is written the file it names holds the entry's content and the path is
\* appended to the result.
C6_NullEntrySkipped ==
    [][(xpc = "loop" /\ Len(outcome') = Len(outcome) + 1) =>
          IF sources_content[idx] = NULL
          THEN /\ dirs' = dirs
               /\ files' = files
               /\ extracted_files' = extracted_files
               /\ Encodable(sources[idx]) =>
                      /\ outcome' = Append(outcome, Skipped)
                      /\ idx' = idx + 1
               /\ idx' = idx => returned' = "raised"
          ELSE LET o == outcome'[Len(outcome')]
               IN  /\ Len(outcome') = idx
                   /\ o.path \in
                        {PathJoin(OutputPath, CleanPath(sources[idx])),
                         PathJoin(OutputPath, FallbackFilename(idx - 1))}
                   /\ o.fallback =>
                        o.path = PathJoin(OutputPath, FallbackFilename(idx - 1))
                   /\ o.kind = "written" =>
                        /\ files'[ResolvedFile(o.path)] = sources_content[idx]
                        /\ extracted_files' = Append(extracted_files, o.path)
      ]_vars

C6_Witness ==
    /\ Len(outcome) = 2
    /\ outcome[1] = Skipped
    /\ outcome[2].kind = "written"
    /\ outcome[2].fallback
    /\ sources[1] = <<"a">>

\* C7: a second run of extract_source_files on the same document and output
\* root leaves the same files with the same contents and the same
\* directories, and returns the same list of written paths.
C7_Idempotent ==
    (run = 2 /\ xpc = "done") =>
        /\ files = prev.files
        /\ dirs = prev.dirs
        /\ extracted_files = prev.extracted
        /\ returned = prev.returned
        /\ outcome = prev.outcome

\* two entries, the second nested below the file the first wrote and so
\* redirected to its fallback name, and both runs over
C7_Witness ==
    /\ run = 2
    /\ xpc = "done"
    /\ Len(outcome) = 2
    /\ outcome[1].kind = "written"
    /\ outcome[2].kind = "written"
    /\ outcome[2].fallback
    /\ IsUnder(outcome[2].path, outcome[1].path) = FALSE
    /\ sources[2] = <<"a", "/", "b">>
    /\ rootLen = 4

\* C12: a failure confined to one entry (its directory cannot be made, its
\* write fails, its sanitized path is empty or names a directory, its path
\* is malformed) never aborts the batch: the call gets through every entry
\* and returns the list, and every entry with content whose write succeeds
\* is recorded in it.
C12_EntryFailureIsolated ==
    (xpc = "done" /\ sources # <<>>
        /\ Len(sources) = Len(sources_content)) =>
        /\ returned = "list"
        /\ Len(outcome) = Len(sources)
        /\ \A k \in 1..Len(outcome) :
               /\ sources_content[k] # NULL =>
                      outcome[k].kind \in {"written", "failed"}
               /\ outcome[k].kind = "written" =>
                      \E j \in 1..Len(extracted_files) :
                          extracted_files[j] = outcome[k].path

\* C13: the fallback name is collision-free: when an entry is written under
\* source_{i:04d}.js, no other entry of the same call is written to the
\* same file.
C13_FallbackCollisionFree ==
    \A i, j \in 1..Len(outcome) :
        (i # j /\ outcome[i].kind = "written" /\ outcome[i].fallback
             /\ outcome[j].kind = "written") =>
            ResolvedFile(outcome[i].path) # ResolvedFile(outcome[j].path)

-----------------------------------------------------------------------------
(* Properties of find_sourcemap_comment *)

\* the text holds a pragma of form k at position p whose reference ends at
\* position e: the opening literal, a run of non-whitespace up to the next
\* white space or the end of the text, and the closing literal of the form
IsPragmaAt(text, k, p, e) ==
    LET pre == PragmaForms[k].pre
        suf == PragmaForms[k].suf
        q == p + Len(pre)
    IN  /\ q <= e /\ e + Len(suf) <= Len(text)
        /\ SubSeq(text, p, q - 1) = pre
        /\ \A c \in q..e : text[c] \notin Whitespace
        /\ e = Len(text) \/ text[e + 1] \in Whitespace
        /\ SubSeq(text, e + 1, e + Len(suf)) = suf

PragmaStarts(text, k) ==
    {p \in 1..Len(text) : \E e \in p..Len(text) : IsPragmaAt(text, k, p, e)}

\* C14: the result is none exactly when the text holds a pragma of no form;
\* otherwise it is the reference of the first pragma of the first form, in
\* the order //#, //@, /*# */, /*@ @*/, of which the text holds one,
\* wherever the pragmas of later forms stand, and it is a non-empty run of
\* non-whitespace characters.
C14_FirstMatchOfFirstForm ==
    f_pc = "done" =>
        LET present == {k \in 1..Len(PragmaForms) :
                           PragmaStarts(script_content, k) # {}}
        IN  /\ f_result.found <=> present # {}
            /\ f_result.found =>
                   /\ f_result.ref # <<>>
                   /\ \A c \in 1..Len(f_result.ref) :
                          f_result.ref[c] \notin Whitespace
                   /\ \E k \in present :
                        \E p \in PragmaStarts(script_content, k) :
                          /\ \A h \in present : k <= h
                          /\ \A h \in PragmaStarts(script_content, k) : p <= h
                          /\ \E e \in p..Len(script_content) :
                                 /\ IsPragmaAt(script_content, k, p, e)
                                 /\ f_result.ref =
                                      SubSeq(script_content,
                                             p + Len(PragmaForms[k].pre), e)

\* a text with a pragma of the last form first and then two of the first
\* form: the reference of the earlier of the two is returned
C14_Witness ==
    /\ f_pc = "done"
    /\ script_content =
           <<"/", "*", "@", " ", "sourceMappingURL=", "e", " ", "@", "*", "/",
             "/", "/", "#", " ", "sourceMappingURL=", "a", "NL",
             "/", "/", "#", " ", "sourceMappingURL=", "b">>
    /\ f_result = [found |-> TRUE, ref |-> <<"a">>]

-----------------------------------------------------------------------------
(* Properties of download_sourcemap *)

\* C15: after every call of download_sourcemap, whether it returned the
\* document or failed with a transport error or a JSON parse error, the
\* temporary file it created no longer exists.
C15_TempFileDiscarded ==
    d_pc \in {"returned", "raised"} => temp_filename \notin temp_files

=============================================================================
